---- MODULE Spec2Model ----
(***************************************************************************)
(* Model of the pain-runtime memory core: the mark-and-sweep               *)
(* GarbageCollector (src/src/gc.rs) and the MemoryPool, BumpAllocator and  *)
(* Arena of src/src/allocator.rs.  Each component has its own              *)
(* specifications (SpecGC, SpecGCHandles, SpecPool, SpecBump, SpecArena,   *)
(* SpecArenaFree, SpecArenaReplay); the variables of the other components  *)
(* stay at their initial value.                                            *)
(***************************************************************************)
EXTENDS Integers, Sequences, FiniteSets, TLC

VARIABLES
    objects,          \* gc.rs:55  data_ptr -> (header copy, allocated size)
    roots,            \* gc.rs:56  root set
    total_allocated,  \* gc.rs:57
    threshold,        \* gc.rs:58
    heap,             \* the memory source: live blocks of std::alloc, by base address
    crashed,          \* the process died in a store through the null pointer
    gcLast,           \* the last collector call: arguments, memory-source answers, result
    freedNow,         \* the dealloc calls the last collector call made
    pool,             \* allocator.rs:93  one MemoryPool
    outstanding,      \* slot addresses handed out by the pool and not given back since
    poolLast,         \* the last pool call and its result
    bump,             \* allocator.rs:8   one BumpAllocator
    ranges,           \* ranges returned by the bump allocator since the last reset
    bumpLast,         \* the last bump-allocator call and its result
    arena,            \* allocator.rs:182 one Arena
    arenaLast,        \* the last arena call and its result
    replay            \* the caller's record of its requests, for reset-and-replay rounds

gcVars   == <<objects, roots, total_allocated, threshold, heap, crashed, gcLast, freedNow>>
poolVars == <<pool, outstanding, poolLast>>
bumpVars == <<bump, ranges, bumpLast>>
arenaVars == <<arena, arenaLast, replay>>
vars     == <<objects, roots, total_allocated, threshold, heap, crashed, gcLast, freedNow,
              pool, outstanding, poolLast, bump, ranges, bumpLast, arena, arenaLast, replay>>

(***************************************************************************)
(* Bounds of the model.                                                    *)
(***************************************************************************)
\* number of blocks the memory source can hold at once (then alloc returns null)
MaxBlocks == 2
\* largest slot count a pool is constructed with
MaxCapacity == 2
\* how many entries beyond its slot count a pool's free list may grow to
MaxExtraFree == 2
\* width of usize and of an address, in bits (64 in the build)
AddrBits == 14
\* how many ranges a bump allocator hands out between two resets
MaxRanges == 3
\* slots of each pool of an arena (256 in the build)
ArenaPoolSlots == 1
\* how many Linear Allocators the memory source has room for
MaxAllocators == 3
\* how many requests a caller makes between two resets when it replays them
MaxReplay == 2
\* how many resets a replaying caller makes
MaxRounds == 2

(***************************************************************************)
(* Garbage collector, src/src/gc.rs                                        *)
(***************************************************************************)
\* the null pointer std::alloc::alloc returns on failure
NULL == 0
\* std::mem::size_of::<GcHeader>() on a 64-bit target: bool + usize, padded
HeaderSize == 16
\* let align = 8
GcAlign == 8

\* (x + align - 1) & !(align - 1), align a power of two
AlignUp(x, align) == ((x + align - 1) \div align) * align

\* addresses the memory source may hand out; a block of any modelled size fits a slot
HeapBases == {64 * k : k \in 1..MaxBlocks}
\* requested object sizes
GcSizes == {0, 17}
\* thresholds a collector is constructed with
Thresholds == {0, 48}
\* addresses passed to add_root / remove_root: the data addresses, and the address
\* HeaderSize bytes past null (never the data address of a block)
RootAddrs == {b + HeaderSize : b \in HeapBases} \cup {NULL + HeaderSize}

Some(p) == [some |-> TRUE, ptr |-> p]
None == [some |-> FALSE, ptr |-> NULL]

\* the collector's state as the phases of a cycle pass it on
GcState == [objects |-> objects, heap |-> heap, total |-> total_allocated, freed |-> {}]

\* header.marked = false for every tracked object
ResetMarks(objs) == [a \in DOMAIN objs |-> [objs[a] EXCEPT !.marked = FALSE]]

\* while let Some(ptr) = to_mark.pop(): skip visited, mark the tracked object if any
RECURSIVE MarkFrom(_, _, _)
MarkFrom(objs, to_mark, marked) ==
    IF to_mark = {} THEN objs
    ELSE LET ptr == CHOOSE p \in to_mark : TRUE
             rest == to_mark \ {ptr}
         IN  IF ptr \in marked THEN MarkFrom(objs, rest, marked)
             ELSE IF ptr \in DOMAIN objs
                  THEN MarkFrom([objs EXCEPT ![ptr].marked = TRUE], rest, marked \cup {ptr})
                  ELSE MarkFrom(objs, rest, marked \cup {ptr})

\* mark_phase with the marks never cleared first
MarkPhaseNoReset(objs, rts) == MarkFrom(objs, rts, {})

\* mark_phase
MarkPhase(objs, rts) == MarkFrom(ResetMarks(objs), rts, {})

\* std::alloc::dealloc(header_ptr, layout): the system allocator frees the block at
\* header_ptr whatever size the layout states; freeing null does nothing
Dealloc(h, header_ptr, layout_size) ==
    [b \in DOMAIN h \ {header_ptr} |-> h[b]]

\* one dealloc call, as the memory source saw it
FreeEvent(h, header_ptr, layout_size) ==
    [base |-> header_ptr, size |-> layout_size,
     requested |-> IF header_ptr \in DOMAIN h THEN h[header_ptr].size ELSE 0,
     owned |-> header_ptr \in DOMAIN h]

\* sweep_phase collecting the marked objects instead
ToRemoveMarked(objs) == {a \in DOMAIN objs : objs[a].marked}

\* the objects the first loop of sweep_phase collects
ToRemove(objs) == {a \in DOMAIN objs : ~objs[a].marked}

\* the loop body with the requested size subtracted instead of the allocated one
SweepOneHeaderSize(g, data_ptr) ==
    LET total_size   == g.objects[data_ptr].total
        aligned_size == AlignUp(HeaderSize + total_size, GcAlign)
        header_ptr   == data_ptr - HeaderSize
    IN  [objects |-> [a \in DOMAIN g.objects \ {data_ptr} |-> g.objects[a]],
         heap    |-> Dealloc(g.heap, header_ptr, aligned_size),
         total   |-> g.total - g.objects[data_ptr].size,
         freed   |-> g.freed \cup {FreeEvent(g.heap, header_ptr, aligned_size)}]

\* the body of the second loop of sweep_phase for one data_ptr
SweepOne(g, data_ptr) ==
    LET total_size   == g.objects[data_ptr].total
        aligned_size == AlignUp(HeaderSize + total_size, GcAlign)
        header_ptr   == data_ptr - HeaderSize
    IN  [objects |-> [a \in DOMAIN g.objects \ {data_ptr} |-> g.objects[a]],
         heap    |-> Dealloc(g.heap, header_ptr, aligned_size),
         total   |-> g.total - total_size,
         freed   |-> g.freed \cup {FreeEvent(g.heap, header_ptr, aligned_size)}]

RECURSIVE SweepAll(_, _)
SweepAll(g, to_remove) ==
    IF to_remove = {} THEN g
    ELSE LET data_ptr == CHOOSE p \in to_remove : TRUE
         IN  SweepAll(SweepOne(g, data_ptr), to_remove \ {data_ptr})

\* sweep_phase
SweepPhase(g) == SweepAll(g, ToRemove(g.objects))

\* collect: mark_phase then sweep_phase
Collect(g, rts) == SweepPhase([g EXCEPT !.objects = MarkPhase(g.objects, rts)])

\* stats
Stats == <<total_allocated, Cardinality(DOMAIN objects),
           Cardinality({a \in DOMAIN objects : objects[a].marked})>>

\* std::alloc::alloc(layout): a fresh block, or null when the source has none
AllocResults(h) == {NULL} \cup (HeapBases \ DOMAIN h)

\* the header written through header_ptr (gc.rs:104)
InitBlock(h, ptr, aligned_size, size, init) ==
    [b \in DOMAIN h \cup {ptr} |->
        IF b = ptr THEN [size |-> aligned_size, init |-> init, marked |-> FALSE, osize |-> size]
        ELSE h[b]]

\* self.objects.insert(data_ptr, (GcHeader {marked: false, size}, aligned_size))
Track(objs, data_ptr, size, aligned_size) ==
    [a \in DOMAIN objs \cup {data_ptr} |->
        IF a = data_ptr THEN [marked |-> FALSE, size |-> size, total |-> aligned_size]
        ELSE objs[a]]

\* the test of gc.rs:80 with a strict comparison
NeedsCollectStrict(total, thr) == total > thr

\* if self.total_allocated >= self.threshold
NeedsCollect(total, thr) == total >= thr

GcInit ==
    /\ objects = <<>>
    /\ roots = {}
    /\ total_allocated = 0
    /\ threshold \in Thresholds
    /\ heap = <<>>
    /\ crashed = FALSE
    /\ gcLast = [op |-> "new", arg |-> 0, first |-> NULL, retried |-> 0, retry |-> NULL,
                 cycles |-> 0, ret |-> None, bytes |-> 0, was_root |-> FALSE]
    /\ freedNow = {}

GcCommit(g, last) ==
    /\ objects' = g.objects
    /\ heap' = g.heap
    /\ total_allocated' = g.total
    /\ freedNow' = g.freed
    /\ gcLast' = last

\* GarbageCollector::allocate(size)
GcAllocate(size) ==
    /\ ~crashed
    /\ LET g0 == GcState
           over == NeedsCollect(total_allocated, threshold)
           g1 == IF over THEN Collect(g0, roots) ELSE g0
           c1 == IF over THEN 1 ELSE 0
           aligned_size == AlignUp(HeaderSize + size, GcAlign)
       IN  \E ptr \in AllocResults(g1.heap) :
             IF ptr # NULL
             THEN \* the first request succeeded
                  /\ GcCommit(
                        [g1 EXCEPT !.heap = InitBlock(g1.heap, ptr, aligned_size, size, TRUE),
                                   !.objects = Track(g1.objects, ptr + HeaderSize, size, aligned_size),
                                   !.total = g1.total + aligned_size],
                        [op |-> "allocate", arg |-> size, first |-> ptr, retried |-> 0,
                         retry |-> NULL, cycles |-> c1, ret |-> Some(ptr + HeaderSize),
                         bytes |-> 0, was_root |-> FALSE])
                  /\ UNCHANGED <<roots, threshold, crashed>>
             ELSE \* null: collect and ask once more, into a new binding of ptr
                  LET g2 == Collect(g1, roots)
                  IN  \E ptr2 \in AllocResults(g2.heap) :
                        IF ptr2 = NULL
                        THEN /\ GcCommit(g2,
                                  [op |-> "allocate", arg |-> size, first |-> NULL, retried |-> 1,
                                   retry |-> NULL, cycles |-> c1 + 1, ret |-> None, bytes |-> 0, was_root |-> FALSE])
                             /\ UNCHANGED <<roots, threshold, crashed>>
                        ELSE \* the retry's block is bound to the inner ptr only; the code
                             \* after the if uses the outer ptr, which is null.  The store
                             \* of the header through null is undefined: the process dies,
                             \* or it goes on with the null-derived addresses
                             \/ /\ crashed' = TRUE
                                /\ GcCommit(
                                     [g2 EXCEPT !.heap = InitBlock(g2.heap, ptr2, aligned_size, size, FALSE)],
                                     [op |-> "allocate", arg |-> size, first |-> NULL, retried |-> 1,
                                      retry |-> ptr2, cycles |-> c1 + 1, ret |-> None, bytes |-> 0, was_root |-> FALSE])
                                /\ UNCHANGED <<roots, threshold>>
                             \/ /\ GcCommit(
                                     [g2 EXCEPT !.heap = InitBlock(g2.heap, ptr2, aligned_size, size, FALSE),
                                                !.objects = Track(g2.objects, NULL + HeaderSize, size, aligned_size),
                                                !.total = g2.total + aligned_size],
                                     [op |-> "allocate", arg |-> size, first |-> NULL, retried |-> 1,
                                      retry |-> ptr2, cycles |-> c1 + 1,
                                      ret |-> Some(NULL + HeaderSize), bytes |-> 0, was_root |-> FALSE])
                                /\ UNCHANGED <<roots, threshold, crashed>>
    /\ UNCHANGED <<poolVars, bumpVars, arenaVars>>

GcQuiet(op, arg) ==
    [op |-> op, arg |-> arg, first |-> NULL, retried |-> 0, retry |-> NULL,
     cycles |-> 0, ret |-> None, bytes |-> 0, was_root |-> arg \in roots]

\* GarbageCollector::add_root(ptr)
AddRoot(ptr) ==
    /\ ~crashed
    /\ roots' = roots \cup {ptr}
    /\ gcLast' = GcQuiet("add_root", ptr)
    /\ freedNow' = {}
    /\ UNCHANGED <<objects, total_allocated, threshold, heap, crashed, poolVars, bumpVars, arenaVars>>

\* remove_root that also drops the object from the live-object mapping
RemoveRootUntracks(ptr) ==
    /\ ~crashed
    /\ roots' = roots \ {ptr}
    /\ objects' = [a \in DOMAIN objects \ {ptr} |-> objects[a]]
    /\ gcLast' = GcQuiet("remove_root", ptr)
    /\ freedNow' = {}
    /\ UNCHANGED <<total_allocated, threshold, heap, crashed, poolVars, bumpVars, arenaVars>>

\* GarbageCollector::remove_root(ptr)
RemoveRoot(ptr) ==
    /\ ~crashed
    /\ roots' = roots \ {ptr}
    /\ gcLast' = GcQuiet("remove_root", ptr)
    /\ freedNow' = {}
    /\ UNCHANGED <<objects, total_allocated, threshold, heap, crashed, poolVars, bumpVars, arenaVars>>

\* GarbageCollector::collect()
GcCollect ==
    /\ ~crashed
    /\ GcCommit(Collect(GcState, roots), [GcQuiet("collect", 0) EXCEPT !.cycles = 1])
    /\ UNCHANGED <<roots, threshold, crashed, poolVars, bumpVars, arenaVars>>

\* GarbageCollector::force_collect()
ForceCollect ==
    /\ ~crashed
    /\ LET before == total_allocated
           g == Collect(GcState, roots)
       IN  GcCommit(g, [GcQuiet("force_collect", 0) EXCEPT !.cycles = 1,
                                                           !.bytes = before - g.total])
    /\ UNCHANGED <<roots, threshold, crashed, poolVars, bumpVars, arenaVars>>

\* GcObject::is_marked() on the handle allocate returned for data_ptr: the header
\* in the block, 16 bytes below the data address
IsMarked(h, data_ptr) == h[data_ptr - HeaderSize].marked

\* GcObject::mark() on the handle of a tracked object: sets the header in the
\* block.  The header of the null-derived object is not in any block: the store
\* is undefined, the process dies or goes on
HandleMark(data_ptr) ==
    /\ ~crashed
    /\ data_ptr \in DOMAIN objects
    /\ IF (data_ptr - HeaderSize) \in DOMAIN heap
       THEN /\ heap' = [heap EXCEPT ![data_ptr - HeaderSize].marked = TRUE]
            /\ UNCHANGED crashed
       ELSE /\ heap' = heap
            /\ crashed' \in BOOLEAN
    /\ gcLast' = GcQuiet("mark", data_ptr)
    /\ freedNow' = {}
    /\ UNCHANGED <<objects, roots, total_allocated, threshold, poolVars, bumpVars, arenaVars>>

PoolIdle == pool = <<>> /\ outstanding = {} /\ poolLast = <<>>
BumpIdle == bump = <<>> /\ ranges = <<>> /\ bumpLast = <<>>
ArenaIdle == arena = <<>> /\ arenaLast = <<>> /\ replay = <<>>

InitGC == GcInit /\ PoolIdle /\ BumpIdle /\ ArenaIdle

NextGC ==
    \/ \E size \in GcSizes : GcAllocate(size)
    \/ \E ptr \in RootAddrs : AddRoot(ptr)
    \/ \E ptr \in RootAddrs : RemoveRoot(ptr)
    \/ GcCollect
    \/ ForceCollect

SpecGC == InitGC /\ [][NextGC]_vars

\* the collector together with the handles its callers hold
NextGCHandles ==
    \/ NextGC
    \/ \E data_ptr \in RootAddrs : HandleMark(data_ptr)

SpecGCHandles == InitGC /\ [][NextGCHandles]_vars

(***************************************************************************)
(* Claims about the garbage collector (checked under SpecGC)               *)
(***************************************************************************)
\* every collector call that runs a cycle runs it on the roots of its pre-state
\* (no call changes the roots and collects): the blocks a call released
FreedBases(ev) == {e.base : e \in ev}

RECURSIVE SumTotals(_, _)
SumTotals(objs, S) ==
    IF S = {} THEN 0
    ELSE LET a == CHOOSE x \in S : TRUE
         IN  objs[a].total + SumTotals(objs, S \ {a})

\* C1: in every step of the collector (allocate with or without its cycles,
\* add_root, remove_root, collect, force_collect), an address that is tracked and
\* in the root set when the step starts is still a key of the live-object mapping
\* afterwards, and its backing block is neither passed to dealloc nor gone from
\* the memory source.
C1_RootedObjectsSurvive ==
    [][\A a \in DOMAIN objects \cap roots :
          /\ a \in DOMAIN objects'
          /\ (a - HeaderSize) \notin FreedBases(freedNow')
          /\ ((a - HeaderSize) \in DOMAIN heap => (a - HeaderSize) \in DOMAIN heap')]_vars

\* a cycle has just released an unrooted object while a rooted one, with its block, stays
C1_Witness ==
    /\ gcLast.cycles >= 1
    /\ freedNow # {}
    /\ \E a \in DOMAIN objects \cap roots : (a - HeaderSize) \in DOMAIN heap

\* C2: when collect() returns, the live-object mapping holds exactly the previously
\* tracked addresses that were in the root set at the call (roots that are no key
\* are ignored), each with its recorded sizes unchanged; stats() reports that many
\* objects in total and the same number as live (marked).
C2_CollectKeepsExactlyRooted ==
    [][gcLast'.op = "collect" =>
          /\ DOMAIN objects' = DOMAIN objects \cap roots
          /\ \A a \in DOMAIN objects' :
                /\ objects'[a].size = objects[a].size
                /\ objects'[a].total = objects[a].total
          /\ Stats'[2] = Cardinality(DOMAIN objects \cap roots)
          /\ Stats'[3] = Stats'[2]]_vars

\* collect() has removed an object, kept another, and ignored a root that is no key
C2_Witness ==
    /\ gcLast.op = "collect"
    /\ freedNow # {}
    /\ DOMAIN objects # {}
    /\ roots \ DOMAIN objects # {}

\* C3: force_collect() returns 0 when every tracked address is a root; otherwise it
\* returns a positive number, the sum of the recorded allocated sizes of exactly the
\* objects the call removed, which is the tracked total before minus after.
C3_ForceCollectReturnsFreedBytes ==
    [][gcLast'.op = "force_collect" =>
          LET removed == DOMAIN objects \ DOMAIN objects'
          IN  IF DOMAIN objects \subseteq roots
              THEN gcLast'.bytes = 0 /\ removed = {}
              ELSE /\ gcLast'.bytes > 0
                   /\ removed = DOMAIN objects \ roots
                   /\ gcLast'.bytes = SumTotals(objects, removed)
                   /\ gcLast'.bytes = total_allocated - total_allocated']_vars

\* force_collect() has removed two objects of different sizes at once
C3_Witness ==
    /\ gcLast.op = "force_collect"
    /\ Cardinality(freedNow) = 2
    /\ gcLast.bytes = 16 + 40

\* C4: when allocate(size) is called with total tracked bytes >= threshold and
\* returns an object, a cycle has run before the object was registered: every
\* previously tracked address outside the root set is gone (or is now the address
\* of the new object), and the new object is in the mapping, unmarked, with the
\* requested size.  When the total is below the threshold and the first memory
\* request succeeds, every previously tracked object is still there, unchanged,
\* and its block is not released.
C4_ThresholdCycleBeforeRegistering ==
    [][(gcLast'.op = "allocate" /\ gcLast'.ret.some) =>
          LET new == gcLast'.ret.ptr
          IN  /\ new \in DOMAIN objects'
              /\ ~objects'[new].marked
              /\ objects'[new].size = gcLast'.arg
              /\ total_allocated >= threshold =>
                    /\ gcLast'.cycles >= 1
                    /\ \A a \in DOMAIN objects \ roots :
                          a \notin DOMAIN objects' \/ a = new
              /\ (total_allocated < threshold /\ gcLast'.first # NULL) =>
                    /\ gcLast'.cycles = 0
                    /\ freedNow' = {}
                    /\ \A a \in DOMAIN objects :
                          /\ a # new
                          /\ a \in DOMAIN objects'
                          /\ objects'[a] = objects[a]
                          /\ ((a - HeaderSize) \in DOMAIN heap
                                 => (a - HeaderSize) \in DOMAIN heap')]_vars

\* an allocate over the threshold whose first request succeeded has swept an
\* unrooted object and registered the new one
C4_Witness ==
    /\ gcLast.op = "allocate"
    /\ gcLast.first # NULL
    /\ gcLast.cycles = 1
    /\ freedNow # {}
    /\ gcLast.ret.some
    /\ gcLast.ret.ptr \in DOMAIN objects
    /\ Cardinality(DOMAIN objects) = 2

\* C5: in allocate, when the first memory request fails, exactly one cycle runs for
\* it and the request is retried once; if the retry succeeds the call returns the
\* object whose header is in the retried block and whose data address, HeaderSize
\* past that block, is the registered key; if the retry fails the call returns
\* failure, adds no key and no bytes.
C5_RetryUsesRetriedBlock ==
    [][(gcLast'.op = "allocate" /\ gcLast'.first = NULL) =>
          /\ gcLast'.retried = 1
          /\ gcLast'.cycles = (IF total_allocated >= threshold THEN 1 ELSE 0) + 1
          /\ IF gcLast'.retry # NULL
             THEN /\ ~crashed'
                  /\ gcLast'.ret = Some(gcLast'.retry + HeaderSize)
                  /\ gcLast'.ret.ptr \in DOMAIN objects'
                  /\ heap'[gcLast'.retry].init
             ELSE /\ gcLast'.ret = None
                  /\ DOMAIN objects' \subseteq DOMAIN objects
                  /\ total_allocated' <= total_allocated]_vars

(***************************************************************************)
(* MemoryPool, src/src/allocator.rs                                        *)
(***************************************************************************)
\* usize::next_power_of_two
RECURSIVE NextPowerOfTwoFrom(_, _)
NextPowerOfTwoFrom(n, p) == IF p >= n THEN p ELSE NextPowerOfTwoFrom(n, 2 * p)

NextPowerOfTwo(n) == NextPowerOfTwoFrom(n, 1)

\* a - b on usize: below zero it panics in a debug build and wraps in a release build
UsizeSub(a, b) == [ok |-> a >= b, val |-> a - b]

\* MemoryPool::new(block_size, capacity), ptr the block the memory source returned
PoolNew(block_size, capacity, ptr) ==
    LET aligned_block_size == NextPowerOfTwo(block_size)
        slots == [i \in 1..capacity |-> ptr + (i - 1) * aligned_block_size]
    IN  [block_size |-> aligned_block_size,
         blocks     |-> slots,
         free_list  |-> slots,
         pool_size  |-> aligned_block_size * capacity]

\* MemoryPool::allocate: free_list.pop()
PoolAllocate(p) ==
    IF p.free_list = <<>>
    THEN [pool |-> p, ret |-> None]
    ELSE [pool |-> [p EXCEPT !.free_list = SubSeq(@, 1, Len(@) - 1)],
          ret  |-> Some(p.free_list[Len(p.free_list)])]

\* the test of deallocate with the alignment check left out
PoolAcceptsRangeOnly(p, ptr_addr) ==
    LET pool_start == p.blocks[1]
        pool_end   == pool_start + p.pool_size
    IN  ptr_addr >= pool_start /\ ptr_addr < pool_end

\* the two tests of MemoryPool::deallocate
PoolAccepts(p, ptr_addr) ==
    LET pool_start == p.blocks[1]
        pool_end   == pool_start + p.pool_size
    IN  /\ ptr_addr >= pool_start /\ ptr_addr < pool_end
        /\ (ptr_addr - pool_start) % p.block_size = 0

\* MemoryPool::deallocate(ptr)
PoolDeallocate(p, ptr) ==
    IF PoolAccepts(p, ptr)
    THEN [p EXCEPT !.free_list = Append(@, ptr)]
    ELSE p

\* MemoryPool::free_count
FreeCount(p) == Len(p.free_list)

\* MemoryPool::allocated_count
AllocatedCount(p) == UsizeSub(Len(p.blocks), Len(p.free_list))

\* block sizes and addresses of the pools constructed
PoolBlockSizes == {3, 8}
PoolBases == {64}
\* addresses passed to deallocate: the slots, and addresses below, between and past them
PoolAddrs(p) ==
    LET pool_start == p.blocks[1]
    IN  {pool_start - p.block_size, pool_start - 1, pool_start + p.pool_size,
         pool_start + p.pool_size + p.block_size}
        \cup {p.blocks[i] : i \in 1..Len(p.blocks)}
        \cup {p.blocks[i] + 1 : i \in 1..Len(p.blocks)}

PoolInit ==
    /\ \E bs \in PoolBlockSizes, cap \in 1..MaxCapacity, ptr \in PoolBases :
          pool = PoolNew(bs, cap, ptr)
    /\ outstanding = {}
    /\ poolLast = [op |-> "new", arg |-> NULL, ret |-> None, accepted |-> FALSE]

\* a call of MemoryPool::allocate
PoolAllocateCall ==
    /\ LET r == PoolAllocate(pool)
       IN  /\ pool' = r.pool
           /\ poolLast' = [op |-> "allocate", arg |-> NULL, ret |-> r.ret, accepted |-> FALSE]
           /\ outstanding' = IF r.ret.some THEN outstanding \cup {r.ret.ptr} ELSE outstanding
    /\ UNCHANGED <<gcVars, bumpVars, arenaVars>>

\* a call of MemoryPool::deallocate(ptr)
PoolDeallocateCall(ptr) ==
    /\ Len(pool.free_list) < Len(pool.blocks) + MaxExtraFree
    /\ pool' = PoolDeallocate(pool, ptr)
    /\ poolLast' = [op |-> "deallocate", arg |-> ptr, ret |-> None,
                    accepted |-> PoolAccepts(pool, ptr)]
    /\ outstanding' = IF PoolAccepts(pool, ptr) THEN outstanding \ {ptr} ELSE outstanding
    /\ UNCHANGED <<gcVars, bumpVars, arenaVars>>

GcIdle ==
    /\ objects = <<>> /\ roots = {} /\ total_allocated = 0 /\ threshold = 0
    /\ heap = <<>> /\ crashed = FALSE /\ gcLast = <<>> /\ freedNow = {}

InitPool == PoolInit /\ GcIdle /\ BumpIdle /\ ArenaIdle

NextPool ==
    \/ PoolAllocateCall
    \/ \E ptr \in PoolAddrs(pool) : PoolDeallocateCall(ptr)

SpecPool == InitPool /\ [][NextPool]_vars

(***************************************************************************)
(* Claims about the MemoryPool (checked under SpecPool)                    *)
(***************************************************************************)
\* C6: an address allocate() returns is not outstanding: every earlier allocate()
\* that returned it has been followed by a deallocate of it that the pool took.
C6_NoSlotHandedOutTwice ==
    [][(poolLast'.op = "allocate" /\ poolLast'.ret.some) =>
          poolLast'.ret.ptr \notin outstanding]_vars

\* C7: free_count() never exceeds the slot count, allocated_count() never
\* underflows, and allocated_count() + free_count() is the slot count.
C7_CountsAddUp ==
    /\ FreeCount(pool) <= Len(pool.blocks)
    /\ AllocatedCount(pool).ok
    /\ AllocatedCount(pool).val + FreeCount(pool) = Len(pool.blocks)

\* C8: deallocate(addr) with addr below the pool's first slot, at or past
\* first slot + block_size * slot count, or inside that range but not a multiple
\* of block_size from the first slot, changes nothing of the pool (free list,
\* free_count) and raises nothing.
C8_BadAddressRejected ==
    [][poolLast'.op = "deallocate" =>
          LET addr  == poolLast'.arg
              first == pool.blocks[1]
              past  == first + pool.block_size * Len(pool.blocks)
          IN  (addr < first \/ addr >= past
                  \/ \A k \in 0..Len(pool.blocks) : addr - first # k * pool.block_size)
              => /\ pool' = pool
                 /\ FreeCount(pool') = FreeCount(pool)
                 /\ ~poolLast'.accepted]_vars

\* deallocate was called with an address inside the pool that is no slot boundary,
\* while a slot was handed out, and the free list did not take it
C8_Witness ==
    /\ poolLast.op = "deallocate"
    /\ poolLast.arg > pool.blocks[1]
    /\ poolLast.arg < pool.blocks[1] + pool.pool_size
    /\ poolLast.arg \notin {pool.blocks[i] : i \in 1..Len(pool.blocks)}
    /\ FreeCount(pool) < Len(pool.blocks)

(***************************************************************************)
(* BumpAllocator, src/src/allocator.rs                                     *)
(***************************************************************************)
\* usize and addresses are AddrBits wide: arithmetic on them is modulo UsizeMod
UsizeMod == 2 ^ AddrBits

\* usize::is_power_of_two
IsPowerOfTwo(n) == \E k \in 0..(AddrBits - 1) : n = 2 ^ k

\* BumpAllocator::new(size), ptr the block the memory source returned
BumpNew(size, ptr) == [start |-> ptr, current |-> ptr, end |-> ptr + size, size |-> size]

\* BumpAllocator::used: current.offset_from(start) as usize
Used(b) == (b.current - b.start) % UsizeMod

\* BumpAllocator::capacity
Capacity(b) == b.size

\* the result of allocate in wrapping arithmetic, and whether a step of the
\* computation left the range of usize (a usize + or -) or of ptr::add
BumpAllocateWrapping(b, size, align) ==
    LET mask         == align - 1
        current_addr == b.current
        sum          == current_addr + mask
        aligned_addr == (sum % UsizeMod) - ((sum % UsizeMod) % align)
        align_offset == (aligned_addr - current_addr) % UsizeMod
        aligned_ptr  == (current_addr + align_offset) % UsizeMod
        new_current  == (aligned_ptr + size) % UsizeMod
        overflow     == \/ sum >= UsizeMod
                        \/ aligned_addr < current_addr
                        \/ 2 * align_offset >= UsizeMod
                        \/ current_addr + align_offset >= UsizeMod
                        \/ 2 * size >= UsizeMod
                        \/ aligned_ptr + size >= UsizeMod
    IN  IF new_current > b.end
        THEN [b |-> b, ret |-> None, panic |-> FALSE, overflow |-> overflow]
        ELSE [b |-> [b EXCEPT !.current = new_current],
              ret |-> IF aligned_ptr = NULL THEN None ELSE Some(aligned_ptr),
              panic |-> FALSE, overflow |-> overflow]

\* the call unwinds: nothing is written
BumpPanic(b) == [b |-> b, ret |-> None, panic |-> TRUE, overflow |-> FALSE]

\* BumpAllocator::allocate(size, align).  align_offset panics when align is no
\* power of two.  An overflowing usize operation panics in a debug build and wraps
\* in a release build; ptr::add past the address space (or by more than isize::MAX)
\* is undefined: a debug build's precondition check panics, a release build wraps.
BumpAllocate(b, size, align) ==
    IF ~IsPowerOfTwo(align)
    THEN {BumpPanic(b)}
    ELSE LET w == BumpAllocateWrapping(b, size, align)
         IN  IF w.overflow THEN {w, BumpPanic(b)} ELSE {w}

\* reset leaving the cursor where it is
BumpResetKeepsCursor(b) == b

\* BumpAllocator::reset
BumpReset(b) == [b EXCEPT !.current = b.start]

\* sizes the allocators are constructed with, and where the memory source puts them
BumpCapacities == {8, 13}
BumpBases == {16}
\* arguments of allocate: small requests, and requests near the top of usize
BumpSizes == {0, 1, 3, 8, UsizeMod - 8, UsizeMod - 3}
BumpAligns == {1, 2, 3, 8}

BumpInit ==
    /\ \E size \in BumpCapacities, ptr \in BumpBases : bump = BumpNew(size, ptr)
    /\ ranges = <<>>
    /\ bumpLast = [op |-> "new", size |-> 0, align |-> 0, ret |-> None, panic |-> FALSE,
                   used0 |-> 0]

\* a call of BumpAllocator::allocate(size, align)
BumpAllocateCall(size, align) ==
    /\ Len(ranges) < MaxRanges
    /\ \E o \in BumpAllocate(bump, size, align) :
          /\ bump' = o.b
          /\ bumpLast' = [op |-> "allocate", size |-> size, align |-> align,
                          ret |-> o.ret, panic |-> o.panic, used0 |-> Used(bump)]
          /\ ranges' = IF o.ret.some THEN Append(ranges, [p |-> o.ret.ptr, n |-> size])
                       ELSE ranges
    /\ UNCHANGED <<gcVars, poolVars, arenaVars>>

\* a call of BumpAllocator::reset
BumpResetCall ==
    /\ bump' = BumpReset(bump)
    /\ ranges' = <<>>
    /\ bumpLast' = [op |-> "reset", size |-> 0, align |-> 0, ret |-> None, panic |-> FALSE,
                    used0 |-> Used(bump)]
    /\ UNCHANGED <<gcVars, poolVars, arenaVars>>

InitBump == BumpInit /\ GcIdle /\ PoolIdle /\ ArenaIdle

NextBump ==
    \/ \E size \in BumpSizes, align \in BumpAligns : BumpAllocateCall(size, align)
    \/ BumpResetCall

SpecBump == InitBump /\ [][NextBump]_vars

(***************************************************************************)
(* Claims about the BumpAllocator (checked under SpecBump)                 *)
(***************************************************************************)
\* C9: whenever allocate(n, a) succeeds (a >= 1), the returned address is a
\* multiple of a, is the smallest such address at or after the cursor before the
\* call, and used() grows by exactly n plus the padding between the old cursor and
\* the returned address.
C9_AlignedAndUsedGrowsBySize ==
    [][(bumpLast'.op = "allocate" /\ bumpLast'.ret.some /\ bumpLast'.align >= 1) =>
          LET p == bumpLast'.ret.ptr
              a == bumpLast'.align
              n == bumpLast'.size
          IN  /\ p % a = 0
              /\ p >= bump.current
              /\ p - bump.current < a
              /\ Used(bump') = Used(bump) + n + (p - bump.current)]_vars

\* C10: start <= current <= end in every state, and every range returned since the
\* last reset lies inside the block and overlaps no other such range.
C10_CursorAndRangesInsideBlock ==
    /\ bump.start <= bump.current
    /\ bump.current <= bump.end
    /\ \A i \in 1..Len(ranges) :
          /\ bump.start <= ranges[i].p
          /\ ranges[i].p + ranges[i].n <= bump.end
          /\ \A j \in 1..Len(ranges) :
                i # j => \/ ranges[i].p + ranges[i].n <= ranges[j].p
                         \/ ranges[j].p + ranges[j].n <= ranges[i].p

\* C11: when allocate(size, align), align a power of two, cannot fit the aligned
\* request before the end of the block, it returns the out-of-memory result and
\* leaves the allocator (cursor, used()) as it was; a request that does fit succeeds
\* at the aligned cursor.
C11_ExhaustionLeavesCursor ==
    [][(bumpLast'.op = "allocate" /\ IsPowerOfTwo(bumpLast'.align) /\ ~bumpLast'.panic) =>
          LET p == AlignUp(bump.current, bumpLast'.align)
              n == bumpLast'.size
          IN  IF p + n > bump.end
              THEN /\ bumpLast'.ret = None
                   /\ bump' = bump
                   /\ Used(bump') = Used(bump)
              ELSE bumpLast'.ret = Some(p)]_vars

\* C12: reset() brings used() to 0 whatever preceded it, and leaves the allocator in
\* the state of a freshly constructed one of the same block, so that every
\* allocate(n, a) answers as it does on the fresh allocator.
C12_ResetRestoresFreshState ==
    [][bumpLast'.op = "reset" =>
          LET fresh == BumpNew(bump.size, bump.start)
          IN  /\ Used(bump') = 0
              /\ bump' = fresh
              /\ \A n \in BumpSizes, a \in BumpAligns :
                    BumpAllocate(bump', n, a) = BumpAllocate(fresh, n, a)]_vars

\* reset() was called on an allocator that had bytes in use
C12_Witness ==
    /\ bumpLast.op = "reset"
    /\ bumpLast.used0 > 0
    /\ Used(bump) = 0

(***************************************************************************)
(* Arena, src/src/allocator.rs (Runtime::allocate, reset and memory_stats  *)
(* of src/src/object.rs forward to it)                                     *)
(***************************************************************************)
\* for &size in &[8, 16, 32, 64, 128]
ArenaPoolSizes == <<8, 16, 32, 64, 128>>

\* where the memory source puts the i-th pool (aligned to its block size) and the
\* k-th Linear Allocator (aligned to 16, as malloc does, and to nothing more)
ArenaPoolBase(i) == 1024 * i
ArenaAllocatorBase(k) == 8192 + 16 + 512 * (k - 1)

Max(a, b) == IF a >= b THEN a ELSE b

\* BumpAllocator::new(size) called by the arena for its k-th allocator: Err for
\* size 0, for a size no Layout can hold, and when the memory source has no room
ArenaBumpNew(size, k) ==
    IF size = 0 \/ 2 * size > UsizeMod \/ k > MaxAllocators
    THEN [ok |-> FALSE, b |-> <<>>]
    ELSE [ok |-> TRUE, b |-> BumpNew(size, ArenaAllocatorBase(k))]

\* Arena::new(allocator_size), allocator_size > 0
ArenaNew(allocator_size) ==
    [allocators        |-> <<ArenaBumpNew(allocator_size, 1).b>>,
     current_allocator |-> 0,
     allocator_size    |-> allocator_size,
     pools             |-> [i \in 1..Len(ArenaPoolSizes) |->
                              PoolNew(ArenaPoolSizes[i], ArenaPoolSlots, ArenaPoolBase(i))]]

\* the loop over the pools in Arena::allocate stopping at the first pool that
\* matches size and align, whether it has a free slot or not
RECURSIVE ScanPoolsFirstMatchOnly(_, _, _, _)
ScanPoolsFirstMatchOnly(pools, i, size, align) ==
    IF i > Len(pools) THEN 0
    ELSE IF pools[i].block_size >= size /\ pools[i].block_size % align = 0
         THEN IF PoolAllocate(pools[i]).ret.some THEN i ELSE 0
         ELSE ScanPoolsFirstMatchOnly(pools, i + 1, size, align)

\* the loop over the pools in Arena::allocate, from pool i on: the index of the pool
\* whose allocate() returned a slot, 0 when the loop ends without one
RECURSIVE ScanPools(_, _, _, _)
ScanPools(pools, i, size, align) ==
    IF i > Len(pools) THEN 0
    ELSE IF /\ pools[i].block_size >= size
            /\ pools[i].block_size % align = 0
            /\ PoolAllocate(pools[i]).ret.some
         THEN i
         ELSE ScanPools(pools, i + 1, size, align)

ArenaOutcome(ar, ret, panic, served, idx) ==
    [arena |-> ar, ret |-> ret, panic |-> panic, served |-> served, pool |-> idx]

\* the last step of Arena::allocate: a new allocator of max(allocator_size, size * 2)
ArenaGrow(ar, size, align) ==
    LET doubled == (size * 2) % UsizeMod
        made    == ArenaBumpNew(Max(ar.allocator_size, doubled), Len(ar.allocators) + 1)
        grown   == IF ~made.ok
                   THEN {ArenaOutcome(ar, None, FALSE, "none", 0)}
                   ELSE {IF o.panic THEN ArenaOutcome(ar, None, TRUE, "none", 0)
                         ELSE IF o.ret.some
                         THEN ArenaOutcome(
                                [ar EXCEPT !.allocators = Append(@, o.b),
                                           !.current_allocator = Len(ar.allocators)],
                                o.ret, FALSE, "grow", 0)
                         ELSE ArenaOutcome(ar, None, FALSE, "none", 0)
                         : o \in BumpAllocate(made.b, size, align)}
    IN  \* size * 2 past usize: a debug build panics, a release build wraps
        IF size * 2 >= UsizeMod
        THEN grown \cup {ArenaOutcome(ar, None, TRUE, "none", 0)}
        ELSE grown

\* Arena::allocate(size, align).  A zero align panics: in block_size % align when a
\* pool is large enough, in align_offset otherwise.
ArenaAllocate(ar, size, align) ==
    IF align = 0 THEN {ArenaOutcome(ar, None, TRUE, "none", 0)}
    ELSE LET i == ScanPools(ar.pools, 1, size, align)
         IN  IF i # 0
             THEN LET r == PoolAllocate(ar.pools[i])
                  IN  {ArenaOutcome([ar EXCEPT !.pools[i] = r.pool], r.ret, FALSE, "pool", i)}
             ELSE UNION {
                    IF o.panic THEN {ArenaOutcome(ar, None, TRUE, "none", 0)}
                    ELSE IF o.ret.some
                    THEN {ArenaOutcome(
                            [ar EXCEPT !.allocators[ar.current_allocator + 1] = o.b],
                            o.ret, FALSE, "bump", 0)}
                    ELSE ArenaGrow(
                            [ar EXCEPT !.allocators[ar.current_allocator + 1] = o.b],
                            size, align)
                    : o \in BumpAllocate(ar.allocators[ar.current_allocator + 1], size, align)}

\* the loop of Arena::deallocate, from pool i on: the index of the first pool with
\* block size equal to size, 0 when there is none
RECURSIVE FindPool(_, _, _)
FindPool(pools, i, size) ==
    IF i > Len(pools) THEN 0
    ELSE IF pools[i].block_size = size THEN i
         ELSE FindPool(pools, i + 1, size)

\* Arena::deallocate(ptr, size)
ArenaDeallocate(ar, ptr, size) ==
    LET i == FindPool(ar.pools, 1, size)
    IN  IF i # 0
        THEN [ar EXCEPT !.pools[i] = PoolDeallocate(ar.pools[i], ptr)]
        ELSE ar

\* reset that keeps only the first allocator
ArenaResetDropsAllocators(ar) ==
    [ar EXCEPT !.allocators = <<BumpReset(ar.allocators[1])>>,
               !.current_allocator = 0]

\* Arena::reset
ArenaReset(ar) ==
    [ar EXCEPT !.allocators = [k \in 1..Len(ar.allocators) |-> BumpReset(ar.allocators[k])],
               !.current_allocator = 0]

RECURSIVE SumOver(_, _)
SumOver(f, k) == IF k = 0 THEN 0 ELSE f[k] + SumOver(f, k - 1)

\* Arena::total_used (the first component of Runtime::memory_stats)
TotalUsed(ar) == SumOver([k \in 1..Len(ar.allocators) |-> Used(ar.allocators[k])],
                         Len(ar.allocators))

\* Arena::total_capacity
TotalCapacity(ar) == SumOver([k \in 1..Len(ar.allocators) |-> Capacity(ar.allocators[k])],
                             Len(ar.allocators))

\* the allocator size the arenas are constructed with, and the requests made:
\* <<size, align>>
ArenaAllocatorSizes == {16}
ArenaRequests == {<<8, 16>>, <<130, 8>>, <<130, 256>>}

\* the caller's record: the requests since the last reset (log), those before it
\* (prev), and what total_capacity() and the allocator count were at that reset
ReplayOff == [on |-> FALSE, log |-> <<>>, prev |-> <<>>, count0 |-> 0, cap0 |-> 0, rounds |-> 0]
ReplayOn  == [ReplayOff EXCEPT !.on = TRUE]

ReplayRoom(rp)  == ~rp.on \/ Len(rp.log) < MaxReplay
ReplayRound(rp) == ~rp.on \/ rp.rounds < MaxRounds

ReplayAfterAllocate(rp, size, align) ==
    IF rp.on THEN [rp EXCEPT !.log = Append(@, <<size, align>>)] ELSE rp

ReplayAfterReset(rp, ar) ==
    IF rp.on
    THEN [rp EXCEPT !.prev = rp.log, !.log = <<>>, !.rounds = @ + 1,
                    !.count0 = Len(ar.allocators), !.cap0 = TotalCapacity(ar)]
    ELSE rp

ArenaInit ==
    /\ \E allocator_size \in ArenaAllocatorSizes : arena = ArenaNew(allocator_size)
    /\ arenaLast = [op |-> "new", size |-> 0, align |-> 0, ret |-> None, panic |-> FALSE,
                    served |-> "none", pool |-> 0, ptr |-> NULL, used0 |-> 0, onlyAllocs |-> TRUE]

\* a call of Arena::allocate(size, align) (or of Runtime::allocate)
ArenaAllocateCall(size, align) ==
    /\ ReplayRoom(replay)
    /\ replay' = ReplayAfterAllocate(replay, size, align)
    /\ \E o \in ArenaAllocate(arena, size, align) :
          /\ arena' = o.arena
          /\ arenaLast' = [op |-> "allocate", size |-> size, align |-> align, ret |-> o.ret,
                           panic |-> o.panic, served |-> o.served, pool |-> o.pool, ptr |-> NULL,
                           used0 |-> TotalUsed(arena), onlyAllocs |-> arenaLast.onlyAllocs]
    /\ UNCHANGED <<gcVars, poolVars, bumpVars>>

\* a call of Arena::reset (or of Runtime::reset)
ArenaResetCall ==
    /\ ReplayRound(replay)
    /\ replay' = ReplayAfterReset(replay, arena)
    /\ arena' = ArenaReset(arena)
    /\ arenaLast' = [op |-> "reset", size |-> 0, align |-> 0, ret |-> None, panic |-> FALSE,
                     served |-> "none", pool |-> 0, ptr |-> NULL, used0 |-> TotalUsed(arena),
                     onlyAllocs |-> FALSE]
    /\ UNCHANGED <<gcVars, poolVars, bumpVars>>

\* sizes passed to Arena::deallocate
ArenaFreeSizes == {8, 16}

\* the pool slots handed out by allocate and not given back since
HandedOut(ar) ==
    UNION {{a \in {ar.pools[i].blocks[j] : j \in 1..Len(ar.pools[i].blocks)} :
               \A k \in 1..Len(ar.pools[i].free_list) : ar.pools[i].free_list[k] # a}
           : i \in 1..Len(ar.pools)}

\* a call of Arena::deallocate(ptr, size) with an address allocate handed out
ArenaDeallocateCall(ptr, size) ==
    /\ ptr \in HandedOut(arena)
    /\ arena' = ArenaDeallocate(arena, ptr, size)
    /\ UNCHANGED replay
    /\ arenaLast' = [op |-> "deallocate", size |-> size, align |-> 0, ret |-> None,
                     panic |-> FALSE, served |-> "none", pool |-> 0, ptr |-> ptr,
                     used0 |-> TotalUsed(arena), onlyAllocs |-> FALSE]
    /\ UNCHANGED <<gcVars, poolVars, bumpVars>>

InitArena == ArenaInit /\ replay = ReplayOff /\ GcIdle /\ PoolIdle /\ BumpIdle

\* the slot addresses of the arena's pools
ArenaSlots == {ArenaPoolBase(i) + (j - 1) * ArenaPoolSizes[i] :
                  i \in 1..Len(ArenaPoolSizes), j \in 1..ArenaPoolSlots}

NextArena ==
    \/ \E r \in ArenaRequests : ArenaAllocateCall(r[1], r[2])
    \/ ArenaResetCall

SpecArena == InitArena /\ [][NextArena]_vars

\* a caller that makes requests the pools can serve and gives slots back
ArenaSmallRequests == {<<8, 1>>, <<8, 16>>}

NextArenaFree ==
    \/ \E r \in ArenaSmallRequests : ArenaAllocateCall(r[1], r[2])
    \/ \E ptr \in ArenaSlots, size \in ArenaFreeSizes : ArenaDeallocateCall(ptr, size)

SpecArenaFree == InitArena /\ [][NextArenaFree]_vars

\* a caller that makes only requests no pool can serve, and resets and repeats them
ArenaLargeRequests == {r \in ArenaRequests : r[1] > ArenaPoolSizes[Len(ArenaPoolSizes)]}

InitArenaReplay == ArenaInit /\ replay = ReplayOn /\ GcIdle /\ PoolIdle /\ BumpIdle

NextArenaReplay ==
    \/ \E r \in ArenaLargeRequests : ArenaAllocateCall(r[1], r[2])
    \/ ArenaResetCall

SpecArenaReplay == InitArenaReplay /\ [][NextArenaReplay]_vars

(***************************************************************************)
(* Claims about the Arena (checked under SpecArena)                        *)
(***************************************************************************)
\* C13: after Arena::allocate (Runtime::allocate) has returned an address for a
\* request of positive size, on an arena on which nothing but allocate was called
\* since its construction, total_used() is greater than 0.
C13_UsedAfterAllocate ==
    (/\ arenaLast.op = "allocate"
     /\ arenaLast.onlyAllocs
     /\ arenaLast.ret.some
     /\ arenaLast.size > 0) => TotalUsed(arena) > 0

\* C14: a request larger than the configured allocator size, with a power-of-two
\* alignment, while the memory source has room for one more allocator, succeeds by
\* growing: one allocator of capacity >= 2 * size is appended, it is the current
\* one, and the returned range lies inside it.
C14_LargeRequestGrows ==
    [][(/\ arenaLast'.op = "allocate"
        /\ ~arenaLast'.panic
        /\ arenaLast'.size > arena.allocator_size
        /\ IsPowerOfTwo(arenaLast'.align)
        /\ Len(arena.allocators) < MaxAllocators) =>
          /\ arenaLast'.ret.some
          /\ Len(arena'.allocators) = Len(arena.allocators) + 1
          /\ arena'.current_allocator = Len(arena'.allocators) - 1
          /\ LET new == arena'.allocators[Len(arena'.allocators)]
             IN  /\ Capacity(new) >= 2 * arenaLast'.size
                 /\ new.start <= arenaLast'.ret.ptr
                 /\ arenaLast'.ret.ptr + arenaLast'.size <= new.end]_vars

\* the pools that match a request, in the state before it
MatchingPools(ar, size, align) ==
    {i \in 1..Len(ar.pools) :
        ar.pools[i].block_size >= size /\ ar.pools[i].block_size % align = 0}

FreePools(ar) == {i \in 1..Len(ar.pools) : FreeCount(ar.pools[i]) > 0}

Least(S) == CHOOSE i \in S : \A j \in S : i <= j

\* the address the free list of pool i hands out next
NextSlot(ar, i) == ar.pools[i].free_list[Len(ar.pools[i].free_list)]

\* C15 as claimed: only the first pool with block size >= size and divisible by
\* align is considered; with a free slot it serves the request, without one the
\* request goes to the Linear Allocators and no pool is touched.
C15_OnlyFirstMatchingPool ==
    [][(arenaLast'.op = "allocate" /\ ~arenaLast'.panic
            /\ MatchingPools(arena, arenaLast'.size, arenaLast'.align) # {}) =>
          LET first == Least(MatchingPools(arena, arenaLast'.size, arenaLast'.align))
          IN  IF first \in FreePools(arena)
              THEN /\ arenaLast'.ret = Some(NextSlot(arena, first))
                   /\ arena'.allocators = arena.allocators
              ELSE /\ arena'.pools = arena.pools
                   /\ arenaLast'.served # "pool"]_vars

\* C15 as amended: the request is served by the first pool, in construction order,
\* that has block size >= size, block size divisible by align, and a free slot;
\* that pool's last free slot is returned and nothing else changes.  Only when no
\* matching pool has a free slot does the request go to the Linear Allocators,
\* with every pool unchanged.
C15_FirstMatchingPoolWithFreeSlot ==
    [][(arenaLast'.op = "allocate" /\ ~arenaLast'.panic) =>
          LET cands == MatchingPools(arena, arenaLast'.size, arenaLast'.align)
                          \cap FreePools(arena)
          IN  IF cands # {}
              THEN LET i == Least(cands)
                   IN  /\ arenaLast'.ret = Some(NextSlot(arena, i))
                       /\ arenaLast'.served = "pool"
                       /\ FreeCount(arena'.pools[i]) = FreeCount(arena.pools[i]) - 1
                       /\ \A j \in 1..Len(arena.pools) :
                             j # i => arena'.pools[j] = arena.pools[j]
                       /\ arena'.allocators = arena.allocators
                       /\ arena'.current_allocator = arena.current_allocator
              ELSE /\ arena'.pools = arena.pools
                   /\ arenaLast'.served # "pool"
                   /\ arenaLast'.ret.some =>
                         \E k \in 1..Len(arena'.allocators) :
                            /\ arena'.allocators[k].start <= arenaLast'.ret.ptr
                            /\ arenaLast'.ret.ptr + arenaLast'.size
                                  <= arena'.allocators[k].end]_vars

\* a request for 8 bytes aligned to 16 passed over the 8-byte pool, which had a free
\* slot but the wrong block size for the alignment, and was served from the 32-byte
\* pool because the 16-byte pool, the first that matches, had no free slot
C15_Witness ==
    /\ arenaLast.op = "allocate"
    /\ arenaLast.size = 8 /\ arenaLast.align = 16
    /\ arenaLast.served = "pool" /\ arenaLast.pool = 3
    /\ FreeCount(arena.pools[1]) > 0
    /\ FreeCount(arena.pools[2]) = 0
    /\ arenaLast.ret = Some(ArenaPoolBase(3))

\* C16: Arena::reset() brings used() of every Linear Allocator, and so
\* total_used(), to 0, and leaves the number of allocators, the block and capacity
\* of each, total_capacity(), and every pool (free list, free and allocated
\* counts) as they were.
C16_ResetRewindsOnlyCursors ==
    [][arenaLast'.op = "reset" =>
          /\ Len(arena'.allocators) = Len(arena.allocators)
          /\ \A k \in 1..Len(arena.allocators) :
                /\ Used(arena'.allocators[k]) = 0
                /\ arena'.allocators[k].start = arena.allocators[k].start
                /\ arena'.allocators[k].end = arena.allocators[k].end
                /\ Capacity(arena'.allocators[k]) = Capacity(arena.allocators[k])
          /\ TotalUsed(arena') = 0
          /\ TotalCapacity(arena') = TotalCapacity(arena)
          /\ \A i \in 1..Len(arena.pools) :
                /\ arena'.pools[i].free_list = arena.pools[i].free_list
                /\ FreeCount(arena'.pools[i]) = FreeCount(arena.pools[i])
                /\ AllocatedCount(arena'.pools[i]) = AllocatedCount(arena.pools[i])
          /\ arena'.pools = arena.pools
          /\ arena'.allocator_size = arena.allocator_size]_vars

\* reset() was called on an arena with two allocators, bytes in use and a pool
\* slot handed out
C16_Witness ==
    /\ arenaLast.op = "reset"
    /\ arenaLast.used0 > 0
    /\ Len(arena.allocators) = 2
    /\ TotalUsed(arena) = 0
    /\ \E i \in 1..Len(arena.pools) : FreeCount(arena.pools[i]) = 0

(***************************************************************************)
(* More claims about the collector (checked under SpecGC, SpecGCHandles)   *)
(***************************************************************************)
\* C17: add_root and remove_root never fail and are idempotent: add_root(p) with p
\* already a root, and remove_root(p) with p not a root, leave the root set as it
\* was; every call, for a tracked or an untracked address, adds or removes exactly
\* p and leaves the live-object mapping with its mark bits, the total of tracked
\* bytes and the memory source unchanged, and releases nothing.
C17_RootCallsAreIdempotent ==
    [][gcLast'.op \in {"add_root", "remove_root"} =>
          LET p == gcLast'.arg
          IN  /\ ~crashed'
              /\ gcLast'.op = "add_root" => roots' = roots \cup {p}
              /\ gcLast'.op = "remove_root" => roots' = roots \ {p}
              /\ (gcLast'.op = "add_root" /\ p \in roots) => roots' = roots
              /\ (gcLast'.op = "remove_root" /\ p \notin roots) => roots' = roots
              /\ objects' = objects
              /\ total_allocated' = total_allocated
              /\ heap' = heap
              /\ freedNow' = {}]_vars

\* remove_root was called for a tracked, marked address that was a root, and the
\* object is still tracked and marked; an untracked address is a root as well
C17_Witness ==
    /\ gcLast.op = "remove_root"
    /\ gcLast.was_root
    /\ gcLast.arg \in DOMAIN objects
    /\ objects[gcLast.arg].marked
    /\ gcLast.arg \notin roots
    /\ \E q \in roots : q \notin DOMAIN objects

\* C18: in every reachable state the keys of the live-object mapping are exactly
\* the data addresses of the blocks obtained from the memory source and not yet
\* released, the total of tracked bytes is the sum of the recorded allocated sizes,
\* and every block a sweep releases is one the memory source still holds.
C18_MappingIsTheOwnedBlocks ==
    /\ DOMAIN objects = {b + HeaderSize : b \in DOMAIN heap}
    /\ total_allocated = SumTotals(objects, DOMAIN objects)
    /\ \A e \in freedNow : e.owned

\* C19: every block a sweep releases is released with the byte size it was
\* requested with in allocate.
C19_ReleasedWithRequestedSize ==
    \A e \in freedNow : e.owned => e.size = e.requested

\* C20: for every tracked object whose header is in a live block, is_marked() on
\* its handle agrees with the mark bit the collector keeps for it and counts in
\* stats().
C20_HandleMarkAgreesWithCollector ==
    \A a \in DOMAIN objects :
        ((a - HeaderSize) \in DOMAIN heap /\ heap[a - HeaderSize].init) =>
            IsMarked(heap, a) = objects[a].marked

\* C21 (checked under SpecArenaFree): when allocate(size, align) was served from a pool and the next call is
\* deallocate(addr, size) with the returned address and the same size, the slot is
\* back in the pool it was taken from: every pool's free_count() has the value it
\* had before the allocate (the serving pool one more than after it, the others
\* the same).
C21_DeallocateGivesSlotBack ==
    [][(/\ arenaLast.op = "allocate"
        /\ arenaLast.served = "pool"
        /\ arenaLast'.op = "deallocate"
        /\ arenaLast'.ptr = arenaLast.ret.ptr
        /\ arenaLast'.size = arenaLast.size) =>
          /\ \A i \in 1..Len(arena.pools) :
                FreeCount(arena'.pools[i]) =
                    FreeCount(arena.pools[i]) + (IF i = arenaLast.pool THEN 1 ELSE 0)
          /\ arenaLast.ret.ptr \notin HandedOut(arena')]_vars

\* C22 (checked under SpecArenaReplay): when a caller whose requests are all
\* larger than the largest pool block has called reset() and then repeated the
\* requests it made before that reset(), the allocator count and total_capacity()
\* are what they were just before the reset(), in every round.
C22_ReplayCreatesNoAllocator ==
    (replay.on /\ replay.rounds > 0 /\ replay.log = replay.prev) =>
        /\ Len(arena.allocators) = replay.count0
        /\ TotalCapacity(arena) = replay.cap0

====
